---- MODULE Spec2Model ----
(***************************************************************************)
(* PRS Co-Pilot API: the orchestrated POST /generate pipeline              *)
(* (src/server.js, v1.5.0, and the earlier "Responses/Chat Hybrid" build   *)
(* kept in src/unnamed/part_000), with runLLM, runLLMRetry and the         *)
(* regex-based tag extraction.                                             *)
(*                                                                         *)
(* Text is a sequence of lexemes (strings).  A tag, a word and a run of    *)
(* white space are one lexeme each, so a regular expression of the source  *)
(* is computed over lexemes: a literal tag matches the tag lexemes, "."    *)
(* matches every lexeme but the newline, and a word pattern such as        *)
(* /accept/i matches a lexeme when the pattern occurs in its letters.      *)
(***************************************************************************)
EXTENDS Integers, Sequences, FiniteSets, TLC

VARIABLES
    variant,       \* which build handles the request: "v150" | "hybrid"
    caseText,      \* req.body.caseText: "missing" | "blank" | "not a string" | "ok"
    mdl,           \* the trimmed model id runLLM works with
    pc,            \* "start" | "await" (suspended in an upstream call or a backoff) | "done"
    role,          \* the await site of /generate that is (or was last) in flight
    phase,         \* inside runLLMRetry/runLLM: "responses" | "chat" | "sleep" | "idle"
    i,             \* runLLMRetry's loop index
    round,         \* the review loop's counter
    planXml,       \* the current payload
    verdict,
    comment,
    source,
    manager_note,
    raw_review,
    over,          \* the Manager's extracted override token
    nCalls,        \* history: runLLMRetry calls made so far, per await site
    nReturns,      \* history: runLLMRetry calls that returned a text, per await site
    response,      \* what res.json / res.status().json sent; status 0 = nothing yet
    lastErr,       \* runLLMRetry's lastErr: 0 = undefined, k = the error raised by attempt k
    thrown,        \* the error runLLMRetry threw to the handler's catch (0 = none)
    spared,        \* history: some call that returned had made fewer than 3 attempts
    attempts,      \* history: fn() invocations of the runLLMRetry call in progress
    sleeps,        \* history: backoff timers set by the runLLMRetry call in progress
    sent,          \* the user prompt the role invocation in flight was given
    calls,         \* history: the upstream calls of the runLLM invocation in progress
    waits,         \* the waits a runLLMRetry whose attempts all fail computes, in order
    resp,          \* a response object handed to extractFromResponses
    extracted      \* what extractFromResponses returned for it

\* the locals of the runLLMRetry / runLLM invocation in progress
llmVars == <<lastErr, thrown, spared, attempts, sleeps, sent, calls>>

\* the state of the functions that are followed on their own
fnVars == <<waits, resp, extracted>>

vars == <<variant, caseText, mdl, pc, role, phase, i, round, planXml, verdict,
          comment, source, manager_note, raw_review, over, nCalls, nReturns, response,
          llmVars, fnVars>>

-----------------------------------------------------------------------------
(* Bounds and program constants *)

\* longest comment (in lexemes) a review carries
MaxBody == 1

\* a loop bound that is off by one: round <= 3
MaxRoundsOneMore == 3 + 1

\* for (let round = 0; round < 3; round++)
MaxRounds == 3

\* a retry budget that is off by one
TriesOneMore == 3 + 1

\* runLLMRetry(fn, { tries = 3, ... })
Tries == 3

\* runLLMRetry(fn, { ..., baseDelay = 700 }) in v1.5.0, baseDelay = 600 in the hybrid build
BaseDelay == IF variant = "v150" THEN 700 ELSE 600

\* Math.random()*300 lies in [0, 300): both ends and the middle, in whole milliseconds
Jitters == {0, 150, 299}

Sites == {"author", "reviewer", "revise", "manager", "synth"}

-----------------------------------------------------------------------------
(* Lexemes *)

VO == "<SurgicalBoard_Verify>"
VC == "</SurgicalBoard_Verify>"
CO == "<Feedback_Comment>"
CC == "</Feedback_Comment>"
MO == "<Manager_Override>"
MC == "</Manager_Override>"
NO == "<Manager_Note>"
NC == "</Manager_Note>"
PO == "<SurgicalPlan>"
PC == "</SurgicalPlan>"
NL == "\n"
SP == " "

\* \s of the regular expressions and of String.prototype.trim
IsSpace(tok) == tok \in {SP, NL}

\* the lexemes of the vocabulary in which /accept/i finds a match
AcceptLexemes == {"accept", "ACCEPT", "unacceptable"}

\* 'Reviewer returned no structured feedback. Treat this as a formatting/format-only issue (minor).'
NoStructuredMsg ==
    <<"Reviewer returned no structured feedback. Treat this as a formatting/format-only issue (minor).">>

\* 'Override: reviewer output missing/format-only; treating as minor.'
OverrideNote == <<"Override: reviewer output missing/format-only; treating as minor.">>

\* the lexemes of the vocabulary in which
\* /format|tag|layout|xml|structure|style|no structured feedback/i finds a match
MinorLexemes == {"formatting", NoStructuredMsg[1]}

-----------------------------------------------------------------------------
(* String helpers *)

Min(S) == CHOOSE x \in S : \A y \in S : x <= y
Max(S) == CHOOSE x \in S : \A y \in S : x >= y

\* String.prototype.trim
Trim(t) ==
    LET ns == {k \in 1..Len(t) : ~IsSpace(t[k])}
    IN  IF ns = {} THEN <<>> ELSE SubSeq(t, Min(ns), Max(ns))

\* text.match(/open(BODY*?)close/i): the leftmost opening tag that a closing
\* tag follows, and the nearest closing tag after it; with dotAll FALSE the
\* body is (.*?), which cannot cross a newline, with dotAll TRUE it is
\* ([\s\S]*?).  found = FALSE is the null of a failed match.
Match(t, open, close, dotAll) ==
    LET ok(k, j) == /\ t[k] = open
                    /\ t[j] = close
                    /\ dotAll \/ \A m \in (k+1)..(j-1) : t[m] # NL
        starts == {k \in 1..Len(t) : \E j \in (k+1)..Len(t) : ok(k, j)}
    IN  IF starts = {}
        THEN [found |-> FALSE, whole |-> <<>>, group |-> <<>>]
        ELSE LET k == Min(starts)
                 j == Min({x \in (k+1)..Len(t) : t[x] = close})
             IN  [found |-> TRUE, whole |-> SubSeq(t, k, j), group |-> SubSeq(t, k+1, j-1)]

\* /accept/i.test(v)
TestAccept(v) == \E k \in 1..Len(v) : v[k] \in AcceptLexemes

\* an override step without the fast path
LooksMinorNever(c) == FALSE

\* looksMinor with the alternative "format" left out of the pattern
LooksMinorNoFormat(c) == (\E k \in 1..Len(c) : c[k] \in MinorLexemes \ {"formatting"}) \/ c = <<>>

\* /format|tag|layout|xml|structure|style|no structured feedback/i.test(comment || '') || !comment
LooksMinor(c) == (\E k \in 1..Len(c) : c[k] \in MinorLexemes) \/ c = <<>>

\* const isResponsesModel = (m) => /^gpt-5|^o3/i.test(m || '')
IsResponsesModel(m) == m \in {"gpt-5", "o3-mini"}

\* m = text.match(/<SurgicalPlan[\s\S]*?<\/SurgicalPlan>/i); planXml = m ? m[0] : text
PlanOf(text) ==
    LET m == Match(text, PO, PC, TRUE)
    IN  IF m.found THEN m.whole ELSE text

-----------------------------------------------------------------------------
(* What the upstream service may answer, per role *)

\* every sequence over W of at most n lexemes
Bodies(W, n) == UNION {[1..k -> W] : k \in 0..n}

Tagged(open, bodies, close) == {<<open>> \o b \o <<close>> : b \in bodies}

AuthorTexts ==
    { <<>>,
      <<"free-text plan">>,
      <<"Here is the plan:", NL, PO, "steps", PC, NL>>,
      <<PO, "steps", PC, "remark", PC>> }

\* the verdict tag of a review: absent, or present with one of these bodies
VerdictBodies ==
    { <<"accept">>, <<"reject">>, <<"unacceptable">>, <<SP, "ACCEPT">>, <<"accept", NL>> }

\* the comment tag of a review: absent, or present with at most MaxBody lexemes
CommentWords == {"margins", "formatting", SP}

ReviewerTexts ==
    { v \o c : v \in {<<>>} \cup Tagged(VO, VerdictBodies, VC),
               c \in {<<>>} \cup Tagged(CO, Bodies(CommentWords, MaxBody), CC) }

OverrideBodies == { <<"accept">>, <<"reject">>, <<"unacceptable">>, <<"ACCEPT", SP>> }

ManagerTexts ==
    { o \o n : o \in {<<>>} \cup Tagged(MO, OverrideBodies, MC),
               n \in {<<>>, <<NO, "concise reason", NC>>} }

SynthTexts == { <<>>, <<"### Preoperative Plan">> }

ModelIds == {"gpt-5", "gpt-4o"}

-----------------------------------------------------------------------------
(* JavaScript values, as far as extractFromResponses looks at them *)

Undefined == [t |-> "undefined"]
Null == [t |-> "null"]
Num == [t |-> "number"]
Str(s) == [t |-> "string", s |-> s]
Arr(a) == [t |-> "array", a |-> a]
Obj(f) == [t |-> "object", f |-> f]

\* v?.k, for the property names the extractor reads
Get(v, k) == IF v.t = "object" /\ k \in DOMAIN v.f THEN v.f[k] ELSE Undefined

\* ToBoolean (the number is not 0)
Truthy(v) ==
    CASE v.t \in {"undefined", "null"} -> FALSE
      [] v.t = "string" -> v.s # <<>>
      [] OTHER -> TRUE

\* a || b
Or(a, b) == IF Truthy(a) THEN a ELSE b

\* for (const x of v) raises a TypeError unless v is iterable
Iterable(v) == v.t \in {"array", "string"}

\* what the loop runs over; the characters of a string have none of the
\* properties read, so they add nothing
Items(v) == IF v.t = "array" THEN v.a ELSE <<>>

\* String(v) for the values at hand
StringOf(v) ==
    CASE v.t = "string" -> v.s
      [] v.t = "number" -> <<"5">>
      [] OTHER -> <<"[object Object]">>

\* texts.join('\n')
RECURSIVE Join(_)
Join(texts) ==
    IF texts = <<>> THEN <<>>
    ELSE IF Len(texts) = 1 THEN texts[1]
    ELSE texts[1] \o <<NL>> \o Join(Tail(texts))

\* what one content part pushes on texts
PartTexts(c) ==
    LET text == Get(c, "text")
        value == Get(text, "value")
    IN  IF text.t = "string" THEN <<text.s>>
        ELSE IF value.t = "string" THEN <<value.s>>
        ELSE IF Get(text, "annotations").t = "array" THEN <<StringOf(Or(value, Str(<<>>)))>>
        ELSE IF Get(c, "content").t = "string" THEN <<Get(c, "content").s>>
        ELSE <<>>

RECURSIVE PartsFrom(_, _)
PartsFrom(cont, k) ==
    IF k > Len(cont) THEN <<>> ELSE PartTexts(cont[k]) \o PartsFrom(cont, k + 1)

\* the texts pushed from item k on; a content that is not iterable raises
\* inside the try, which ends both loops and keeps what was pushed before
RECURSIVE ItemsFrom(_, _)
ItemsFrom(out, k) ==
    IF k > Len(out) THEN <<>>
    ELSE LET cont == Or(Get(out[k], "content"), Arr(<<>>))
         IN  IF ~Iterable(cont) THEN <<>>
             ELSE PartsFrom(Items(cont), 1) \o ItemsFrom(out, k + 1)

\* function extractFromResponses(resp)
ExtractFromResponses(r) ==
    IF ~Truthy(r) THEN <<>>
    ELSE IF Get(r, "output_text").t = "string" /\ Trim(Get(r, "output_text").s) # <<>>
    THEN Get(r, "output_text").s
    ELSE LET out == Or(Or(Get(r, "output"), Get(r, "outputs")), Arr(<<>>))
         IN  Trim(Join(IF Iterable(out) THEN ItemsFrom(Items(out), 1) ELSE <<>>))

\* the texts a response object may carry
ExtractTexts == { <<"plan text">>, <<SP, "plan text", NL>>, <<SP>>, <<>> }

\* the response shapes: a top-level text field, the first choice's message
\* content, output items with content parts (text as a string, or as an object
\* with a value field)
TopLevelText(t) == Obj([output_text |-> Str(t)])
FirstChoice(t) == Obj([choices |-> Arr(<<Obj([message |-> Obj([content |-> Str(t)])])>>)])
OutputItems(parts) == Obj([output |-> Arr(<<Obj([content |-> Arr(parts)])>>)])
PartString(t) == Obj([text |-> Str(t)])
PartValue(t) == Obj([text |-> Obj([value |-> Str(t)])])

Documented(t) ==
    { TopLevelText(t), FirstChoice(t), OutputItems(<<PartString(t)>>),
      OutputItems(<<PartValue(t)>>) }

\* shapes with none of these fields, or with an output field that is no list
Unrecognized ==
    { Null, Obj(<<>>), Num, Obj([output |-> Num]), Obj([output |-> Obj(<<>>)]),
      Obj([output_text |-> Num]), Obj([text |-> Str(<<"plan text">>)]),
      Obj([output |-> Arr(<<Obj([content |-> Num])>>)]),
      Obj([output |-> Arr(<<Null, Obj([content |-> Arr(<<Null, Num>>)])>>)]) }

\* further shapes the extractor reads
Further(t) ==
    { Obj([outputs |-> Arr(<<Obj([content |-> Arr(<<PartString(t)>>)])>>)]),
      OutputItems(<<Obj([content |-> Str(t)])>>),
      OutputItems(<<Obj([text |-> Obj([annotations |-> Arr(<<>>)])]), PartString(t)>>),
      OutputItems(<<PartString(t), PartValue(t)>>),
      Obj([output |-> Arr(<<Obj([content |-> Arr(<<PartString(t)>>)]), Obj([content |-> Num])>>)]),
      Obj([output_text |-> Str(<<SP>>), output |-> Arr(<<Obj([content |-> Arr(<<PartString(t)>>)])>>)]) }

Responses == Unrecognized \cup UNION { Documented(t) \cup Further(t) : t \in ExtractTexts }

-----------------------------------------------------------------------------
(* Tag extraction of the review loop and of the override *)

\* the derivation without "v = 'reject'" in the noStructured branch
DeriveReviewKeepsVerdict(reviewText) ==
    LET vMatch == Match(reviewText, VO, VC, FALSE)
        cMatch == Match(reviewText, CO, CC, TRUE)
        v == IF vMatch.found THEN Trim(vMatch.group) ELSE <<>>
        c0 == IF cMatch.found THEN Trim(cMatch.group) ELSE <<>>
        c == IF c0 # <<>> THEN c0 ELSE NoStructuredMsg
    IN  [verdict |-> IF TestAccept(v) THEN "accept" ELSE "reject", comment |-> c]

\* server.js /generate: vMatch, cMatch, v, c, noStructured, verdict, comment
DeriveReview(reviewText) ==
    LET vMatch == Match(reviewText, VO, VC, FALSE)
        cMatch == Match(reviewText, CO, CC, TRUE)
        v0 == IF vMatch.found THEN Trim(vMatch.group) ELSE <<>>
        c0 == IF cMatch.found THEN Trim(cMatch.group) ELSE <<>>
        noStructured == ~vMatch.found \/ ~cMatch.found \/ c0 = <<>>
        v == IF noStructured THEN <<"reject">> ELSE v0
        c == IF noStructured THEN (IF c0 # <<>> THEN c0 ELSE NoStructuredMsg) ELSE c0
    IN  [verdict |-> IF TestAccept(v) THEN "accept" ELSE "reject", comment |-> c]

\* part_000 /generate and both builds' /review:
\* v = (match || [,'reject'])[1]; c = (match || [,''])[1].trim()
DeriveReviewPlain(reviewText) ==
    LET vMatch == Match(reviewText, VO, VC, FALSE)
        cMatch == Match(reviewText, CO, CC, TRUE)
        v == IF vMatch.found THEN vMatch.group ELSE <<"reject">>
        c == IF cMatch.found THEN Trim(cMatch.group) ELSE <<>>
    IN  [verdict |-> IF TestAccept(v) THEN "accept" ELSE "reject", comment |-> c]

\* over = (mgrText.match(/<Manager_Override>(.*?)<\/Manager_Override>/i) || [,'reject'])[1].trim()
OverrideOf(mgrText) ==
    LET m == Match(mgrText, MO, MC, FALSE)
    IN  Trim(IF m.found THEN m.group ELSE <<"reject">>)

\* manager_note = (mgrText.match(/<Manager_Note>([\s\S]*?)<\/Manager_Note>/i) || [,''])[1].trim()
NoteOf(mgrText) ==
    LET m == Match(mgrText, NO, NC, TRUE)
    IN  Trim(IF m.found THEN m.group ELSE <<>>)

\* const reason = source === 'manager_override' ? (comment ? ... : ...) : (comment || '')
Reason(src, c, note) ==
    IF src = "manager_override"
    THEN (IF c # <<>> THEN c \o <<"\n\nManager override: ">> \o note
                      ELSE <<"Manager override: ">> \o note)
    ELSE c

-----------------------------------------------------------------------------
(* The state after construction: a request has arrived, nothing has run *)

InitRun ==
    /\ variant \in {"v150", "hybrid"}
    /\ caseText \in {"missing", "blank", "not a string", "ok"}
    /\ mdl \in ModelIds
    /\ pc = "start"
    /\ role = "none"
    /\ phase = "idle"
    /\ i = 0
    /\ round = 0
    /\ planXml = <<>>
    /\ verdict = "reject"
    /\ comment = <<>>
    /\ source = "review"
    /\ manager_note = <<>>
    /\ raw_review = <<>>
    /\ over = <<>>
    /\ nCalls = [s \in Sites |-> 0]
    /\ nReturns = [s \in Sites |-> 0]
    /\ response = [status |-> 0]
    /\ lastErr = 0
    /\ thrown = 0
    /\ spared = FALSE
    /\ attempts = 0
    /\ sleeps = 0
    /\ sent = [prompt |-> "none"]
    /\ calls = <<>>

\* a request has arrived; no function is followed on its own
Init ==
    /\ InitRun
    /\ waits = <<>>
    /\ resp = Undefined
    /\ extracted = [called |-> FALSE]

-----------------------------------------------------------------------------
(* runLLMRetry and runLLM *)

RECURSIVE Pow(_, _)
Pow(b, k) == IF k = 0 THEN 1 ELSE b * Pow(b, k - 1)

\* a backoff that does not grow with the attempt index
BackoffDelayFlat(b, k, jitter) == b + jitter

\* const sleep = baseDelay * Math.pow(1.6, i) + Math.random()*300, in whole milliseconds
BackoffDelay(b, k, jitter) == (b * Pow(16, k)) \div Pow(10, k) + jitter

\* a fallback that keeps the requested model name
ChatModelSame(m) == m

\* mdl.replace(/^gpt-5/i, 'gpt-4o')
ChatModel(m) == IF m = "gpt-5" THEN "gpt-4o" ELSE m

\* a failure response that passes the error on
FailureBodyWithDetail == [status |-> 500, error |-> "generate_failed", detail |-> "e.message"]

\* catch(e){ console.error(e); res.status(500).json({ error: 'generate_failed' }); }
FailureBody == [status |-> 500, error |-> "generate_failed"]

\* runLLM's first upstream call: the Responses API for gpt-5 / o3, else Chat Completions
FirstPhase == IF IsResponsesModel(mdl) THEN "responses" ELSE "chat"

\* the api and the model name of that first call
FirstCall ==
    IF IsResponsesModel(mdl)
    THEN [api |-> "responses", model |-> mdl]
    ELSE [api |-> "chat", model |-> IF variant = "v150" THEN ChatModel(mdl) ELSE mdl]

\* await runLLMRetry(() => runLLM({ system, user }, ...)) at await site r:
\* lastErr undefined, i = 0, and fn()'s first upstream call
BeginCall(r, user) ==
    /\ pc' = "await"
    /\ role' = r
    /\ i' = 0
    /\ phase' = FirstPhase
    /\ nCalls' = [nCalls EXCEPT ![r] = @ + 1]
    /\ sent' = user
    /\ lastErr' = 0
    /\ attempts' = 1
    /\ sleeps' = 0
    /\ calls' = <<FirstCall>>
    /\ UNCHANGED <<response, thrown>>

\* res.json(body) / res.status(code).json(body), and the handler returns
Respond(body) ==
    /\ response' = body
    /\ pc' = "done"
    /\ phase' = "idle"
    /\ UNCHANGED <<role, i, nCalls, lastErr, thrown, attempts, sleeps, sent, calls>>

\* runLLM returns text to runLLMRetry, which returns it to the handler:
\* v150 returns the Responses text only when it is non-blank, the hybrid build
\* whatever extractText gave; the Chat Completions content is returned as it is
RunLLMReturns(text) ==
    /\ pc = "await"
    /\ \/ phase = "responses" /\ (variant = "hybrid" \/ Trim(text) # <<>>)
       \/ phase = "chat"
    /\ nReturns' = [nReturns EXCEPT ![role] = @ + 1]
    /\ spared' = (spared \/ attempts < Tries)

\* an empty Responses text taken for a failed attempt and tried again
ResponsesFallthroughRetries ==
    /\ pc = "await" /\ phase = "responses" /\ variant = "v150"
    /\ IF attempts < Tries
       THEN /\ i' = i + 1
            /\ attempts' = attempts + 1
            /\ calls' = <<FirstCall>>
            /\ UNCHANGED phase
       ELSE /\ phase' = "chat"
            /\ calls' = Append(calls, [api |-> "chat", model |-> ChatModel(mdl)])
            /\ UNCHANGED <<i, attempts>>
    /\ UNCHANGED <<variant, caseText, mdl, pc, role, round, planXml, verdict,
                   comment, source, manager_note, raw_review, over, nCalls, nReturns,
                   response, lastErr, thrown, spared, sleeps, sent, fnVars>>

\* v150 runLLM: client.responses.create raised, or its text was empty:
\* fall through to Chat Completions
ResponsesFallthrough ==
    /\ pc = "await" /\ phase = "responses" /\ variant = "v150"
    /\ phase' = "chat"
    /\ calls' = Append(calls, [api |-> "chat", model |-> ChatModel(mdl)])
    /\ UNCHANGED <<variant, caseText, mdl, pc, role, i, round, planXml, verdict,
                   comment, source, manager_note, raw_review, over, nCalls, nReturns,
                   response, lastErr, thrown, spared, attempts, sleeps, sent, fnVars>>

\* the upstream call raised and runLLM lets it through (Chat Completions in
\* v150; either call in the hybrid build): runLLMRetry's catch sets lastErr
\* and starts the backoff timer
AttemptThrows ==
    /\ pc = "await"
    /\ \/ phase = "chat"
       \/ phase = "responses" /\ variant = "hybrid"
    /\ phase' = "sleep"
    /\ lastErr' = attempts
    /\ sleeps' = sleeps + 1
    /\ UNCHANGED <<variant, caseText, mdl, pc, role, i, round, planXml, verdict,
                   comment, source, manager_note, raw_review, over, nCalls, nReturns,
                   response, thrown, spared, attempts, sent, calls, fnVars>>

\* a retry that starts the call over after every wait
BackoffFiresForever ==
    /\ pc = "await" /\ phase = "sleep"
    /\ phase' = FirstPhase
    /\ i' = 0
    /\ lastErr' = 0
    /\ attempts' = 1
    /\ sleeps' = 0
    /\ calls' = <<FirstCall>>
    /\ UNCHANGED <<variant, caseText, mdl, pc, role, round, planXml, verdict, comment,
                   source, manager_note, raw_review, over, nCalls, nReturns, response,
                   thrown, spared, sent, fnVars>>

\* the backoff timer fires: i++, and either the next attempt starts or the
\* loop ends, runLLMRetry throws lastErr and /generate's catch answers 500
BackoffFires ==
    /\ pc = "await" /\ phase = "sleep"
    /\ i' = i + 1
    /\ IF i + 1 < Tries
       THEN /\ phase' = FirstPhase
            /\ attempts' = attempts + 1
            /\ calls' = <<FirstCall>>
            /\ UNCHANGED <<pc, response, thrown>>
       ELSE /\ phase' = "idle"
            /\ pc' = "done"
            /\ thrown' = lastErr
            /\ response' = FailureBody
            /\ UNCHANGED <<attempts, calls>>
    /\ UNCHANGED <<variant, caseText, mdl, role, round, planXml, verdict,
                   comment, source, manager_note, raw_review, over, nCalls, nReturns,
                   lastErr, spared, sleeps, sent, fnVars>>

-----------------------------------------------------------------------------
(* POST /generate *)

\* a planner prompt that takes no critique
PlannerPromptNoCritique(ct, critique) == [prompt |-> "planner", caseText |-> ct, critique |-> <<>>]

\* plannerPrompt(caseText, verbosity, critique): the critique block is left
\* out when critique is undefined or ''
PlannerPrompt(ct, critique) == [prompt |-> "planner", caseText |-> ct, critique |-> critique]

\* reviewerPrompt(xml)
ReviewerPrompt(xml) == [prompt |-> "reviewer", xml |-> xml]

\* managerPrompt(comment || 'No reviewer comment.')
ManagerPrompt(c) ==
    [prompt |-> "manager", reviewText |-> IF c # <<>> THEN c ELSE <<"No reviewer comment.">>]

\* synthPrompt(xml, verbosity)
SynthPrompt(xml) == [prompt |-> "synth", xml |-> xml]

\* a validation that tests the field's presence only
NoCaseTextUntrimmed(ct) == ct = "missing"

\* !caseText || !caseText.trim()
NoCaseText(ct) == ct \in {"missing", "blank"}

\* the request arrives: validation, then the initial plan's call is issued;
\* a truthy caseText that is no string has no trim method, and the TypeError
\* goes to the handler's catch
GenerateStart ==
    /\ pc = "start"
    /\ IF NoCaseText(caseText)
       THEN Respond([status |-> 400, error |-> "Missing caseText"])
       ELSE IF caseText = "not a string"
            THEN Respond(FailureBody)
            ELSE BeginCall("author", PlannerPrompt(caseText, <<>>))
    /\ UNCHANGED <<variant, caseText, mdl, round, planXml, verdict, comment, source,
                   manager_note, raw_review, over, nReturns, spared, fnVars>>

\* a loop without the break
LoopBreaksNever(v) == FALSE

\* if (verdict === 'accept') break;
LoopBreaks(v) == v = "accept"

\* an acceptance response that leaves the document out
AcceptedBodyNoDocument(v, src, c, note, xml, markdown, rr) ==
    [status |-> 200, verdict |-> v, source |-> src, reason |-> Reason(src, c, note),
     comment |-> c, manager_note |-> note, xml |-> xml, raw_review |-> rr]

\* res.json({ verdict, source, reason, comment, manager_note, xml: planXml, markdown, raw_review })
\* (v150) and res.json({ verdict, comment, xml: planXml, markdown }) (hybrid)
AcceptedBody(v, src, c, note, xml, markdown, rr) ==
    IF variant = "v150"
    THEN [status |-> 200, verdict |-> v, source |-> src, reason |-> Reason(src, c, note),
          comment |-> c, manager_note |-> note, xml |-> xml, markdown |-> markdown,
          raw_review |-> rr]
    ELSE [status |-> 200, verdict |-> v, comment |-> c, xml |-> xml, markdown |-> markdown]

\* a rejection response built before the Manager's note is known
RejectedBodyNoNote(v, src, c, note, xml, rr) ==
    [status |-> 200, verdict |-> v, source |-> src, reason |-> Reason(src, c, <<>>),
     comment |-> c, manager_note |-> <<>>, xml |-> xml, raw_review |-> rr]

\* res.json({ verdict, source, reason, comment, manager_note, xml: planXml, raw_review })
\* (v150) and res.json({ verdict, comment, xml: planXml }) (hybrid)
RejectedBody(v, src, c, note, xml, rr) ==
    IF variant = "v150"
    THEN [status |-> 200, verdict |-> v, source |-> src, reason |-> Reason(src, c, note),
          comment |-> c, manager_note |-> note, xml |-> xml, raw_review |-> rr]
    ELSE [status |-> 200, verdict |-> v, comment |-> c, xml |-> xml]

\* the code after the review loop, entered with the locals verdict = v and
\* comment = c: v150's step 4 (manager override) and the branch to synthesis;
\* the hybrid build answers a rejection at once
AfterLoop(v, c) ==
    /\ comment' = c
    /\ IF variant = "v150"
       THEN IF v # "accept"
            THEN IF LooksMinor(c)
                 THEN /\ verdict' = "accept"
                      /\ source' = "manager_override"
                      /\ manager_note' = OverrideNote
                      /\ BeginCall("synth", SynthPrompt(planXml'))
                 ELSE /\ verdict' = v
                      /\ UNCHANGED <<source, manager_note>>
                      /\ BeginCall("manager", ManagerPrompt(c))
            ELSE /\ verdict' = v
                 /\ UNCHANGED <<source, manager_note>>
                 /\ BeginCall("synth", SynthPrompt(planXml'))
       ELSE /\ verdict' = v
            /\ UNCHANGED <<source, manager_note>>
            /\ IF v # "accept"
               THEN Respond(RejectedBody(v, source, c, manager_note, planXml', raw_review))
               ELSE BeginCall("synth", SynthPrompt(planXml'))

\* 0) the initial plan arrives: planXml, the loop's locals, round = 0 and the
\* first review call
AuthorReturn ==
    \E planText \in AuthorTexts :
        /\ RunLLMReturns(planText)
        /\ role = "author"
        /\ planXml' = PlanOf(planText)
        /\ verdict' = "reject"
        /\ comment' = <<>>
        /\ source' = "review"
        /\ manager_note' = <<>>
        /\ raw_review' = <<>>
        /\ round' = 0
        /\ BeginCall("reviewer", ReviewerPrompt(planXml'))
        /\ UNCHANGED <<variant, caseText, mdl, over, fnVars>>

\* a review arrives: verdict and comment are derived; accept breaks out of the
\* loop, anything else issues the revision call
ReviewerReturn ==
    \E reviewText \in ReviewerTexts :
        /\ RunLLMReturns(reviewText)
        /\ role = "reviewer"
        /\ UNCHANGED planXml
        /\ raw_review' = IF variant = "v150" THEN Trim(reviewText) ELSE raw_review
        /\ LET d == IF variant = "v150" THEN DeriveReview(reviewText)
                                        ELSE DeriveReviewPlain(reviewText)
           IN  IF LoopBreaks(d.verdict)
               THEN AfterLoop(d.verdict, d.comment)
               ELSE /\ verdict' = d.verdict
                    /\ comment' = d.comment
                    /\ UNCHANGED <<source, manager_note>>
                    /\ BeginCall("revise", PlannerPrompt(caseText, d.comment))
        /\ UNCHANGED <<variant, caseText, mdl, round, over, fnVars>>

\* a revised plan arrives: planXml is replaced, round++, and the loop either
\* reviews again or ends
ReviseReturn ==
    \E revised \in AuthorTexts :
        /\ RunLLMReturns(revised)
        /\ role = "revise"
        /\ planXml' = PlanOf(revised)
        /\ round' = round + 1
        /\ IF round + 1 < MaxRounds
           THEN /\ BeginCall("reviewer", ReviewerPrompt(planXml'))
                /\ UNCHANGED <<verdict, comment, source, manager_note>>
           ELSE AfterLoop(verdict, comment)
        /\ UNCHANGED <<variant, caseText, mdl, raw_review, over, fnVars>>

\* the Manager's text arrives: override decision and note; accept goes on to
\* synthesis, anything else answers the rejection
ManagerReturn ==
    \E mgrText \in ManagerTexts :
        /\ RunLLMReturns(mgrText)
        /\ role = "manager"
        /\ UNCHANGED planXml
        /\ over' = OverrideOf(mgrText)
        /\ manager_note' = NoteOf(mgrText)
        /\ IF TestAccept(over')
           THEN /\ verdict' = "accept"
                /\ source' = "manager_override"
                /\ BeginCall("synth", SynthPrompt(planXml'))
           ELSE /\ UNCHANGED <<verdict, source>>
                /\ Respond(RejectedBody(verdict, source, comment, manager_note',
                                        planXml, raw_review))
        /\ UNCHANGED <<variant, caseText, mdl, round, comment, raw_review, fnVars>>

\* the rendered document arrives and the acceptance is answered
SynthReturn ==
    \E markdown \in SynthTexts :
        /\ RunLLMReturns(markdown)
        /\ role = "synth"
        /\ Respond(AcceptedBody(verdict, source, comment, manager_note, planXml, markdown,
                                raw_review))
        /\ UNCHANGED <<variant, caseText, mdl, round, planXml, verdict, comment, source,
                       manager_note, raw_review, over, fnVars>>

-----------------------------------------------------------------------------

Next ==
    \/ GenerateStart
    \/ ResponsesFallthrough
    \/ AttemptThrows
    \/ BackoffFires
    \/ AuthorReturn
    \/ ReviewerReturn
    \/ ReviseReturn
    \/ ManagerReturn
    \/ SynthReturn

Spec == Init /\ [][Next]_vars

\* every upstream call returns or raises and every backoff timer fires: the
\* handler is never suspended forever
FairSpec == Spec /\ WF_vars(Next)

-----------------------------------------------------------------------------
(* extractFromResponses and the backoff waits, each followed on its own *)

runVars == <<variant, caseText, mdl, pc, role, phase, i, round, planXml, verdict,
             comment, source, manager_note, raw_review, over, nCalls, nReturns, response,
             llmVars>>

\* a response object is about to be handed to the extractor, and a
\* runLLMRetry call whose attempts all fail is about to start
InitFn ==
    /\ InitRun
    /\ caseText = "ok"
    /\ mdl = "gpt-5"
    /\ waits = <<>>
    /\ resp \in Responses
    /\ extracted = [called |-> FALSE]

\* const text = extractFromResponses(resp)
Extract ==
    /\ ~extracted.called
    /\ extracted' = [called |-> TRUE, text |-> ExtractFromResponses(resp)]
    /\ UNCHANGED <<runVars, waits, resp>>

\* the catch of iteration Len(waits) of runLLMRetry computes its wait
ComputeSleep ==
    /\ Len(waits) < Tries
    /\ \E jitter \in Jitters :
          waits' = Append(waits, BackoffDelay(BaseDelay, Len(waits), jitter))
    /\ UNCHANGED <<runVars, resp, extracted>>

NextFn == Extract \/ ComputeSleep

FnSpec == InitFn /\ [][NextFn]_vars

-----------------------------------------------------------------------------
(* Vocabulary of the properties *)

\* the body of the first comment tag of a review text, trimmed; empty when the tag is missing
CommentIn(t) ==
    LET m == Match(t, CO, CC, TRUE)
    IN  IF m.found THEN Trim(m.group) ELSE <<>>

\* the review text carries a verdict tag whose token is accept, in any letter case
SaysAccept(t) ==
    LET m == Match(t, VO, VC, FALSE)
    IN  m.found /\ Trim(m.group) \in {<<"accept">>, <<"ACCEPT">>}

\* the review text lacks the verdict tag, lacks the comment tag, or has an empty comment
Malformed(t) ==
    \/ ~Match(t, VO, VC, FALSE).found
    \/ ~Match(t, CO, CC, TRUE).found
    \/ CommentIn(t) = <<>>

\* the comment is empty or carries a superficial-concern marker
Superficial(c) ==
    \/ c = <<>>
    \/ \E k \in 1..Len(c) : c[k] \in {"formatting", NoStructuredMsg[1]}

\* the override step (step 4 of v150) has been entered with the verdict still reject
OverrideEntered == variant = "v150" /\ (nCalls["manager"] >= 1 \/ source = "manager_override")

HasDocument == "markdown" \in DOMAIN response

-----------------------------------------------------------------------------
(* Properties *)

\* C1: the Reviewer is never invoked more than 3 times and the round counter
\* never exceeds 3 and never decreases; a run whose Reviewer turns all reject
\* enters the override step (or, in the hybrid build, answers the rejection)
\* after exactly 3 Reviewer invocations, all of which returned.
C1_ReviewerBound ==
    [][ /\ nCalls'["reviewer"] <= 3
        /\ round' <= 3
        /\ round' >= round
        /\ OverrideEntered' => nCalls'["reviewer"] = 3 /\ nReturns'["reviewer"] = 3
        /\ (response'.status = 200 /\ response'.verdict = "reject")
              => nCalls'["reviewer"] = 3 /\ nReturns'["reviewer"] = 3 ]_vars

C1_Witness == OverrideEntered /\ nCalls["manager"] = 1 /\ nReturns["reviewer"] = 3

\* C2 (as claimed): a reject in the 3rd round starts no revision, so a revision
\* is in flight only while fewer than 3 reviews have been made, there are at
\* most 2 revision calls and at most 3 Author invocations.
C2_NoRevisionAfterFinalReject ==
    /\ nCalls["revise"] <= 2
    /\ nCalls["author"] + nCalls["revise"] <= 3
    /\ (pc = "await" /\ role = "revise") => nCalls["reviewer"] < 3

\* C3 (as claimed): when the loop ends still rejected with a non-empty comment
\* that carries no superficial marker, the Manager is invoked exactly once, and
\* once it has answered the verdict is accept if its override token is accept
\* and reject otherwise.
C3_ManagerDecides ==
    (variant = "v150" /\ round = 3 /\ ~Superficial(comment))
        => /\ nCalls["manager"] = 1
           /\ nReturns["manager"] = 1
                => verdict = (IF over \in {<<"accept">>, <<"ACCEPT">>} THEN "accept"
                                                                       ELSE "reject")

\* C4: when the loop ends still rejected and the last comment is empty or
\* superficial, the run is accepted at once with the synthesized override note
\* and source manager_override, and the Manager is never invoked.
C4_FastPath ==
    (variant = "v150" /\ round = 3 /\ Superficial(comment))
        => /\ verdict = "accept"
           /\ source = "manager_override"
           /\ manager_note = OverrideNote
           /\ nCalls["manager"] = 0
           /\ nCalls["synth"] = 1
           /\ response.status = 200 => response.manager_note = OverrideNote

C4_Witness ==
    /\ variant = "v150" /\ round = 3 /\ comment = <<"formatting">>
    /\ pc = "done" /\ response.status = 200

\* C5: the Synthesizer is invoked at most once, only when the verdict is accept
\* (by a Reviewer accept or by an override), and no role is invoked after it;
\* a 200 response holds a markdown document exactly when its verdict is accept.
C5_SynthesisLast ==
    /\ nCalls["synth"] <= 1
    /\ nCalls["synth"] = 1
          => /\ role = "synth"
             /\ verdict = "accept"
             /\ \/ source = "review" /\ nReturns["reviewer"] >= 1 /\ nCalls["manager"] = 0
                \/ source = "manager_override"
    /\ response.status = 200 => (HasDocument <=> response.verdict = "accept")
    /\ response.status # 200 => ~HasDocument

C5_Witness ==
    /\ pc = "done" /\ response.status = 200 /\ response.verdict = "accept"
    /\ HasDocument /\ nCalls["synth"] = 1

\* C6: when all 3 rounds rejected and the Manager answered reject, the run has
\* ended with a 200 response of verdict reject without a markdown field, the
\* Synthesizer was never invoked, and the response carries the current payload,
\* the last comment and the Manager's note.
C6_RejectedFinal ==
    (variant = "v150" /\ nReturns["manager"] = 1 /\ over = <<"reject">>)
        => /\ nReturns["reviewer"] = 3
           /\ nCalls["synth"] = 0
           /\ pc = "done"
           /\ response.status = 200
           /\ response.verdict = "reject"
           /\ ~HasDocument
           /\ response.xml = planXml
           /\ response.comment = comment
           /\ response.manager_note = manager_note

C6_Witness ==
    /\ variant = "v150" /\ nReturns["manager"] = 1 /\ over = <<"reject">>
    /\ pc = "done" /\ response.manager_note = <<"concise reason">>

\* C7: a well-formed accept of the Reviewer makes the verdict accept with
\* source review; and when the Reviewer accepted in round k (verdict accept,
\* source review), k is 1, 2 or 3, there were exactly k Reviewer invocations and
\* k-1 revision calls, one initial Author call and no Manager call, and the run
\* ends with a 200 response of verdict accept, source review and a markdown
\* document (or with the failure response when the Synthesizer's retries ran out).
C7_AcceptInRoundK ==
    /\ (variant = "v150" /\ nReturns["reviewer"] >= 1 /\ ~Malformed(raw_review)
            /\ SaysAccept(raw_review))
          => verdict = "accept" /\ source = "review"
    /\ (nReturns["reviewer"] >= 1 /\ verdict = "accept" /\ source = "review")
          => /\ nCalls["reviewer"] \in 1..3
             /\ nReturns["reviewer"] = nCalls["reviewer"]
             /\ nCalls["revise"] = nCalls["reviewer"] - 1
             /\ nCalls["author"] = 1
             /\ nCalls["manager"] = 0
             /\ nCalls["synth"] = 1
             /\ pc = "done"
                  => \/ response.status = 500 /\ role = "synth" /\ nReturns["synth"] = 0
                     \/ /\ response.status = 200
                        /\ response.verdict = "accept"
                        /\ HasDocument
                        /\ variant = "v150" => response.source = "review"

C7_Witness ==
    /\ variant = "v150" /\ SaysAccept(raw_review) /\ ~Malformed(raw_review)
    /\ nCalls["reviewer"] = 3 /\ nCalls["revise"] = 2
    /\ pc = "done" /\ response.status = 200 /\ HasDocument

\* the three ways a run ends
AcceptedWithDocument == response.status = 200 /\ response.verdict = "accept" /\ HasDocument
RejectedFinal == response.status = 200 /\ response.verdict = "reject" /\ ~HasDocument
Failed == response.status = 500 /\ response.error = "generate_failed"

\* C8: with every upstream call returning or raising and every backoff timer
\* firing, a run (a request that passes the validation) eventually sends a
\* response; the response is accepted-with-document, rejected-final or failed,
\* and once it is sent it is never replaced and no role is invoked any more.
C8_OneResponse ==
    /\ (caseText \notin {"missing", "blank"}) => <>(pc = "done" /\ response.status # 0)
    /\ [](caseText \notin {"missing", "blank"} /\ response.status # 0
            => /\ pc = "done"
               /\ AcceptedWithDocument \/ RejectedFinal \/ Failed)
    /\ [][response.status # 0 => UNCHANGED <<response, nCalls, pc>>]_vars

C8_Witness == caseText = "ok" /\ pc = "done" /\ Failed /\ nCalls["revise"] = 3

C10_FailClosed ==
    (variant = "v150" /\ nReturns["reviewer"] >= 1 /\ source = "review")
        => /\ verdict \in {"accept", "reject"}
           /\ ~SaysAccept(raw_review) => verdict = "reject"

\* C11: when a role invocation still throws after its 3 attempts, the run has
\* ended: the response is the failure marker alone (status 500, error
\* generate_failed, no other field), that invocation never returned, and from
\* then on no role is invoked and the response is not replaced; and the throw
\* follows the 3rd failed attempt of whichever role was in flight.
C11_AbortOnExhaustion ==
    /\ [](thrown # 0 => /\ pc = "done"
                        /\ DOMAIN response = {"status", "error"}
                        /\ response.status = 500
                        /\ response.error = "generate_failed"
                        /\ attempts = 3
                        /\ nReturns[role] = nCalls[role] - 1)
    /\ [][thrown # 0 => UNCHANGED <<nCalls, nReturns, response>>]_vars
    /\ [][(phase = "sleep" /\ attempts = 3 /\ phase' # "sleep") => thrown' # 0]_vars

C11_Witness == thrown # 0 /\ role = "manager" /\ pc = "done" /\ response.status = 500

\* C12: a runLLMRetry call makes at most 3 attempts; the attempt that returns
\* is the first one that did not throw (every attempt before it threw), and
\* with it the call is over: the handler goes on to its next call or answers;
\* when all 3 attempts throw, the error thrown is the one of the 3rd attempt.
C12_RetryBudget ==
    /\ [](attempts <= 3)
    /\ [](pc = "await" /\ phase # "sleep" => lastErr = attempts - 1)
    /\ [][nReturns' # nReturns
            => /\ lastErr = attempts - 1
               /\ \/ pc' = "done" /\ attempts' = attempts
                  \/ nCalls' # nCalls /\ attempts' = 1 /\ lastErr' = 0]_vars
    /\ [](thrown # 0 => thrown = 3 /\ attempts = 3 /\ lastErr = 3)

C12_Witness ==
    /\ pc = "done" /\ response.status = 200 /\ role = "synth"
    /\ attempts = 3 /\ lastErr = 2 /\ thrown = 0

\* C13 (as claimed): a backoff wait is started only when another attempt
\* follows it, so no wait is in progress after the 3rd failed attempt, and a
\* call whose 3 attempts all failed has waited exactly 2 times when it throws.
C13_SleepOnlyBeforeNextAttempt ==
    /\ (pc = "await" /\ phase = "sleep") => attempts < 3
    /\ thrown # 0 => sleeps = 3 - 1

\* the least wait after the failure with 0-based index k: 600 * 1.6^k in the
\* hybrid build, 700 * 1.6^k in v1.5.0
LeastWait == IF variant = "v150" THEN <<700, 1120, 1792>> ELSE <<600, 960, 1536>>

\* C14: the wait after the failure with index k lies in
\* [baseDelay * 1.6^k, baseDelay * 1.6^k + 300), and every wait is at least as
\* long as the wait before it, for the 3 failures of a call and any jitter.
C14_BackoffMonotone ==
    /\ Len(waits) <= 3
    /\ \A k \in 1..Len(waits) :
          /\ LeastWait[k] <= waits[k]
          /\ waits[k] < LeastWait[k] + 300
    /\ \A k \in 2..Len(waits) : waits[k] >= waits[k - 1]

C14_Witness == Len(waits) = 3 /\ waits[1] = 700 + 299 /\ waits[2] = 1120 /\ waits[3] = 1792 + 150

\* role invocations begun and not yet returned or failed
InFlight ==
    LET total(f) == f["author"] + f["reviewer"] + f["revise"] + f["manager"] + f["synth"]
    IN  total(nCalls) - total(nReturns) - (IF thrown # 0 THEN 1 ELSE 0)

\* C15: at most one role invocation is in flight, and exactly one while the
\* handler is suspended; the first invocation is the Author's; a Reviewer
\* invocation in flight was given the current payload, which the Author
\* invocation just before it produced; a revision call in flight follows a
\* review whose verdict is reject and was given that review's comment as its
\* critique.
C15_Sequential ==
    /\ InFlight = (IF pc = "await" THEN 1 ELSE 0)
    /\ nCalls["author"] <= 1
    /\ nReturns["author"] = 0
          => \A r \in Sites \ {"author"} : nCalls[r] = 0
    /\ (pc = "await" /\ role = "reviewer")
          => /\ sent = ReviewerPrompt(planXml)
             /\ nCalls["reviewer"] = nReturns["author"] + nReturns["revise"]
    /\ (pc = "await" /\ role = "revise")
          => /\ verdict = "reject"
             /\ nCalls["revise"] = nReturns["reviewer"]
             /\ sent.prompt = "planner"
             /\ sent.critique = comment
             /\ variant = "v150"
                  => comment = (IF CommentIn(raw_review) # <<>> THEN CommentIn(raw_review)
                                                                  ELSE NoStructuredMsg)

C15_Witness ==
    /\ pc = "await" /\ role = "revise" /\ nCalls["revise"] = 2
    /\ sent.critique = <<"margins">> /\ raw_review = <<VO, "reject", VC, CO, "margins", CC>>

\* C17: a request whose caseText is missing, or blank after trimming, is never
\* suspended in an upstream call: no role is invoked, no attempt is made and
\* no backoff is started, and once it is answered the response is the 400
\* client error and nothing else.
C17_ValidationFirst ==
    caseText \in {"missing", "blank"}
        => /\ \A r \in Sites : nCalls[r] = 0
           /\ attempts = 0 /\ sleeps = 0 /\ calls = <<>>
           /\ pc # "await" /\ phase = "idle"
           /\ pc = "done" => /\ DOMAIN response = {"status", "error"}
                             /\ response.status = 400
                             /\ response.error = "Missing caseText"

C17_Witness == caseText = "blank" /\ pc = "done" /\ response.status = 400

\* C18 (as claimed): once the Author has returned, the current payload is the
\* first <SurgicalPlan> block of its output, or the whole output when there is
\* none (so the payload is a block, or a text without a block), and it is
\* never empty.
C18_PayloadNeverEmpty ==
    nReturns["author"] >= 1
        => /\ PlanOf(planXml) = planXml
           /\ Match(planXml, PO, PC, TRUE).found => planXml[1] = PO /\ planXml[Len(planXml)] = PC
           /\ planXml # <<>>

\* C19 (as claimed): for each of the documented shapes (top-level text field,
\* first choice's message content, output items whose content parts hold the
\* text as a string or as an object with a value field) carrying a non-blank
\* text without outer white space, extractFromResponses returns that text; for
\* any unrecognized shape (null, an output field that is no list, none of the
\* fields) it returns the empty string.
C19_ExtractsDocumentedShapes ==
    extracted.called
        => /\ \A t \in ExtractTexts :
                (t # <<>> /\ Trim(t) = t /\ resp \in Documented(t)) => extracted.text = t
           /\ resp \in Unrecognized => extracted.text = <<>>

\* C20: in v1.5.0 a runLLM invocation for a reasoning-family model makes one
\* Responses call with that model and, only after it, at most one chat call,
\* with gpt-4o in the place of gpt-5; for another model it makes the one chat
\* call only; an error reaches runLLMRetry's catch only from the chat call;
\* and a text returned from the Responses call is never blank, while the chat
\* call's text is returned as it is.
C20_RunLLMCalls ==
    /\ [](variant = "v150" /\ pc = "await"
            => /\ Len(calls) \in 1..2
               /\ mdl = "gpt-5"
                    => /\ calls[1] = [api |-> "responses", model |-> "gpt-5"]
                       /\ Len(calls) = 2 => calls[2] = [api |-> "chat", model |-> "gpt-4o"]
               /\ mdl # "gpt-5" => calls = <<[api |-> "chat", model |-> mdl]>>
               /\ phase \in {"responses", "chat"} => calls[Len(calls)].api = phase
               /\ phase = "sleep" => calls[Len(calls)].api = "chat")
    /\ [][(variant = "v150" /\ nReturns' # nReturns /\ phase = "responses")
            => /\ role \in {"author", "revise"} => planXml' # <<>>
               /\ role = "reviewer" => raw_review' # <<>>
               /\ role = "synth" => response'.markdown # <<>>]_vars

C20_Witness ==
    /\ variant = "v150" /\ mdl = "gpt-5" /\ pc = "await" /\ role = "reviewer"
    /\ nReturns["author"] = 1 /\ planXml = <<>> /\ attempts = 2
    /\ calls = <<[api |-> "responses", model |-> "gpt-5"], [api |-> "chat", model |-> "gpt-4o"]>>

\* C21: a further attempt is made only after a thrown error (the attempts of a
\* call are one more than the errors it caught), and a call that returns a
\* text, empty or untagged, is over: the handler goes on to another role or
\* answers 200; an empty review is resolved to the default comment; and a run
\* that passed validation fails only after a call threw on all 3 attempts.
C21_RetryOnlyOnError ==
    /\ [](pc = "await" => /\ lastErr = sleeps
                          /\ attempts = sleeps + (IF phase = "sleep" THEN 0 ELSE 1))
    /\ [][nReturns' # nReturns
            => \/ pc' = "done" /\ response'.status = 200
               \/ pc' = "await" /\ role' # role /\ attempts' = 1 /\ sleeps' = 0]_vars
    /\ []((variant = "v150" /\ nReturns["reviewer"] >= 1 /\ raw_review = <<>>
             /\ nCalls["manager"] = 0)
            => comment = NoStructuredMsg)
    /\ [](response.status = 500 /\ caseText = "ok" => thrown # 0 /\ sleeps = 3)

C21_Witness ==
    /\ variant = "v150" /\ pc = "done" /\ response.status = 200 /\ thrown = 0
    /\ response.xml = <<>> /\ response.raw_review = <<>> /\ response.markdown = <<>>
    /\ nCalls["author"] = 1 /\ nCalls["reviewer"] = 3 /\ nCalls["synth"] = 1


\* the role invocations begun (f = nCalls) or returned (f = nReturns) so far
Invocations(f) == f["author"] + f["reviewer"] + f["revise"] + f["manager"] + f["synth"]

\* the attempts of the invocation that is in flight or that threw
AttemptsOfOpenCall == IF pc = "await" \/ thrown # 0 THEN attempts ELSE 0

\* the most generation attempts the run can have made so far: 3 for every
\* invocation that returned (one less when some invocation returned before its
\* 3rd attempt) and the attempts of the open one; when no invocation returned
\* early this is the exact number
AttemptsAtMost ==
    3 * Invocations(nReturns) - (IF spared THEN 1 ELSE 0) + AttemptsOfOpenCall

\* C22 as stated: the generation attempts of a run never exceed
\* 3 rounds x 2 role calls x 3 tries = 18 (stated of the runs in which every
\* invocation that returned needed all its tries, where the count is exact).
C22_AtMost18Attempts == ~spared => AttemptsAtMost <= 18

\* C22 amended: a run makes at most 9 role invocations (1 initial Author call,
\* 3 Reviewer calls, 3 revisions, 1 Manager call, 1 Synthesizer call; 7 in the
\* hybrid build, which has no Manager and no Synthesizer), each of at most 3
\* attempts, so its generation attempts never exceed 9 x 3 = 27.
C22_AtMost27Attempts ==
    /\ Invocations(nCalls) <= (IF variant = "v150" THEN 9 ELSE 7)
    /\ Invocations(nReturns) + (IF pc = "await" \/ thrown # 0 THEN 1 ELSE 0) = Invocations(nCalls)
    /\ attempts <= Tries
    /\ AttemptsAtMost <= (IF variant = "v150" THEN 27 ELSE 21)

C22_Witness ==
    /\ variant = "v150" /\ ~spared /\ AttemptsAtMost = 27
    /\ Invocations(nCalls) = 9 /\ nCalls["synth"] = 1


\* C23: the payload given to the Synthesizer and the xml of a 200 response are
\* the current payload, and the current payload is always the one the last
\* Reviewer invocation was given: whenever the payload changes, the new one is
\* submitted to the Reviewer in the same step.
C23_ReturnsReviewedPayload ==
    /\ [](pc = "await" /\ role = "synth" => sent.xml = planXml)
    /\ [](response.status = 200 => response.xml = planXml)
    /\ [][planXml' # planXml
            => pc' = "await" /\ role' = "reviewer" /\ sent' = ReviewerPrompt(planXml')]_vars


\* every review received so far in this run of v150 was malformed (raw_review
\* holds the last one; holding throughout a run, this speaks of each in turn)
MalformedSoFar == variant = "v150" /\ (nReturns["reviewer"] >= 1 => Malformed(raw_review))

WellFormedAccept == ~Malformed(raw_review) /\ SaysAccept(raw_review)

\* C25: in a response with a source field (a 200 response of v150), source is
\* manager_override exactly when the verdict is accept and all 3 reviews
\* rejected; source is review with verdict accept exactly when the last review
\* was a well-formed accept; and verdict reject comes with source review, 3
\* rejecting reviews and one Manager invocation whose token was not accept.
C25_SourceAgrees ==
    (variant = "v150" /\ pc = "done" /\ response.status = 200)
        => /\ response.source \in {"review", "manager_override"}
           /\ response.verdict \in {"accept", "reject"}
           /\ response.source = "manager_override"
                <=> /\ response.verdict = "accept"
                    /\ nReturns["reviewer"] = 3 /\ ~WellFormedAccept
           /\ (response.source = "review" /\ response.verdict = "accept")
                <=> WellFormedAccept
           /\ response.verdict = "reject"
                => /\ response.source = "review"
                   /\ nReturns["reviewer"] = 3 /\ ~WellFormedAccept
                   /\ nCalls["manager"] = 1 /\ nReturns["manager"] = 1
                   /\ over \notin {<<"accept">>, <<"ACCEPT">>}


\* a step inside a role invocation (a failed attempt, a backoff wait that
\* ends, the step from the Responses call to the chat call) leaves the
\* handler's locals, the invocation counts and the response as they are,
\* unless it is the last wait of an exhausted invocation, which sends the
\* failure response
FailedAttemptsKeepLocals ==
    [][(pc = "await" /\ nReturns' = nReturns)
          => /\ UNCHANGED <<planXml, round, verdict, comment, source, manager_note,
                            raw_review, over, role, nCalls, sent>>
             /\ \/ UNCHANGED <<pc, response>>
                \/ pc' = "done" /\ response' = FailureBody /\ sleeps' = Tries]_vars

====
